---- MODULE Spec2Model ----
(***************************************************************************)
(* Model of ST-Manager's forum tag automation:                             *)
(*   core/automation/forum_tag_fetcher.py  (NaobaijinTagParser,            *)
(*       ForumTagFetcher, TagProcessor, get_tag_fetcher)                   *)
(*   core/services/automation_service.py   (the two automation hooks)      *)
(*                                                                         *)
(* Text is modelled as a sequence of tokens (one-character strings for     *)
(* page text, lexical tokens for URLs and class attributes), so that       *)
(* strip, startswith, endswith, rstrip and concatenation are computed as   *)
(* the code computes them.                                                 *)
(***************************************************************************)
EXTENDS Integers, Sequences, FiniteSets, TLC

VARIABLES
    \* ---- NaobaijinTagParser fed with one document ----
    doc,        \* the events HTMLParser.feed produces for the document
    desc,       \* the document's structure, as it was written (SpecScan)
    pos,        \* index of the next event to dispatch
    ps,         \* the parser object's fields
    \* ---- ForumTagFetcher.fetch_tags ----
    url,        \* the argument of fetch_tags
    fpc,        \* position inside fetch_tags
    requests,   \* the URLs session.get was called with, in order
    first,      \* (tags, title, error) of the first _try_fetch
    second,     \* (tags, title, error) of the second _try_fetch
    result,     \* the dict fetch_tags returned
    \* ---- the automation hooks ----
    hook,       \* "import": auto_run_rules_on_card,
                \* "link": auto_run_forum_tags_on_link_update
    hpc,        \* position inside the hook
    calls,      \* the collaborators called so far, in order
    active_id,  \* cfg.get('active_automation_ruleset')
    ruleset,    \* rule_manager.get_ruleset(active_id)
    card_obj,   \* ctx.cache.id_map.get(card_id)
    actions,    \* plan_raw['actions']
    plan,       \* exec_plan
    failed,     \* the step that raised, "" if none did
    ret,        \* the value the hook returned
    outcome,    \* how the call ended for the caller
    cache_card, \* the object ctx.cache.id_map holds for card_id
    context_data,   \* the hook's context_data dict
    \* ---- TagProcessor ----
    method,     \* the method called: "process" or "merge_tags"
    processor,  \* the TagProcessor's exclude_tags and replace_rules
    arg_tags,   \* process: the list passed as tags
    arg_existing,   \* merge_tags: the object passed as existing_tags
    arg_new,    \* merge_tags: the list object passed as new_tags
    arg_mode,   \* merge_tags: the mode passed
    returned,   \* what the method returned
    \* ---- get_tag_fetcher ----
    tag_fetcher,    \* the global _tag_fetcher: 0 for None, else an instance
    instances,  \* the number of ForumTagFetcher instances constructed
    tpc,        \* each caller's position inside get_tag_fetcher
    got,        \* the instance each caller was returned (0: none yet)
    overlapped  \* whether a call began while another one was in progress

svars == <<doc, desc, pos, ps>>
fvars == <<url, fpc, requests, first, second, result>>
hvars == <<hook, hpc, calls, active_id, ruleset, card_obj, actions, plan,
           failed, ret, outcome, cache_card, context_data>>
pvars == <<method, processor, arg_tags, arg_existing, arg_new, arg_mode,
           returned>>
gvars == <<tag_fetcher, instances, tpc, got, overlapped>>
vars  == <<doc, desc, pos, ps, url, fpc, requests, first, second, result,
           hook, hpc, calls, active_id, ruleset, card_obj, actions, plan,
           failed, ret, outcome, cache_card, context_data,
           method, processor, arg_tags, arg_existing, arg_new, arg_mode,
           returned,
           tag_fetcher, instances, tpc, got, overlapped>>

\* Python's None where the other values are strings.
None == "None"

(***************************************************************************)
(* Text helpers                                                            *)
(***************************************************************************)
RECURSIVE Join(_)
\* ''.join(chunks)
Join(chunks) ==
    IF chunks = <<>> THEN <<>> ELSE Head(chunks) \o Join(Tail(chunks))

Whitespace == {" "}

RECURSIVE LStrip(_)
LStrip(s) ==
    IF s # <<>> /\ Head(s) \in Whitespace THEN LStrip(Tail(s)) ELSE s

RECURSIVE RStrip(_)
RStrip(s) ==
    IF s # <<>> /\ s[Len(s)] \in Whitespace
    THEN RStrip(SubSeq(s, 1, Len(s) - 1))
    ELSE s

\* str.strip()
Strip(s) == RStrip(LStrip(s))

\* str.startswith(p)
StartsWith(s, p) == Len(s) >= Len(p) /\ SubSeq(s, 1, Len(p)) = p

\* str.endswith(p)
EndsWith(s, p) ==
    Len(s) >= Len(p) /\ SubSeq(s, Len(s) - Len(p) + 1, Len(s)) = p

\* the sequences over S of length at most n
SeqsUpTo(S, n) == UNION {[1..k -> S] : k \in 0..n}

\* x in list
InSeq(x, s) == \E i \in 1..Len(s) : s[i] = x

(***************************************************************************)
(* NaobaijinTagParser                                                      *)
(***************************************************************************)
\* A class attribute is the sequence of its whitespace-separated class names.
MainMarker  == "tags_e5a45e"
BadgeMarker == "defaultColor__4bd52"
ClampMarker == "lineClamp1__4bd52"

\* 'marker' in class_attr
HasClass(cls, marker) == InSeq(marker, cls)

\* tag_class_pattern.search(class_attr): pill_a2c9e8\s+small_a2c9e8
TagClassPattern(cls) ==
    \E i \in 1..(Len(cls) - 1) :
        cls[i] = "pill_a2c9e8" /\ cls[i + 1] = "small_a2c9e8"

\* NaobaijinTagParser.__init__
ParserInit ==
    [tags |-> <<>>,
     in_tag_pill |-> FALSE,
     current_tag_text |-> <<>>,
     div_depth |-> 0,
     expecting_text |-> FALSE,
     in_main_tags_container |-> FALSE,
     main_container_depth |-> 0]

\* handle_starttag, lines 33-42: the primary container's depth
StartMain(s, cls) ==
    IF HasClass(cls, MainMarker)
    THEN [s EXCEPT !.in_main_tags_container = TRUE,
                   !.main_container_depth = 1]
    ELSE IF s.in_main_tags_container
         THEN [s EXCEPT !.main_container_depth = @ + 1]
         ELSE s

PillGuardAnywhere(s) == TRUE

\* handle_starttag, line 45: pills are looked at only inside the container
PillGuard(s) == s.in_main_tags_container

\* handle_starttag, lines 48-60: the pill
StartPill(s, cls) ==
    IF ~PillGuard(s) THEN s
    ELSE IF TagClassPattern(cls)
         THEN IF ~HasClass(cls, BadgeMarker)
              THEN [s EXCEPT !.in_tag_pill = TRUE,
                             !.div_depth = 1,
                             !.expecting_text = TRUE,
                             !.current_tag_text = <<>>]
              ELSE s
         ELSE IF s.in_tag_pill
              THEN [s EXCEPT !.div_depth = @ + 1,
                             !.expecting_text =
                                 IF @ /\ HasClass(cls, ClampMarker)
                                 THEN FALSE ELSE @]
              ELSE s

HandleStartTag(s, tag, cls) ==
    IF tag = "div" THEN StartPill(StartMain(s, cls), cls) ELSE s

\* handle_endtag, lines 65-68
EndMain(s) ==
    IF s.in_main_tags_container
    THEN [s EXCEPT !.main_container_depth = @ - 1,
                   !.in_main_tags_container =
                       IF s.main_container_depth - 1 = 0 THEN FALSE ELSE @]
    ELSE s

KeepTagAlways(tags, tag_text) == TRUE

\* handle_endtag, line 77: the finished pill's text joins the tags or not
KeepTag(tags, tag_text) ==
    tag_text # <<>> /\ ~StartsWith(tag_text, <<"+">>) /\ ~InSeq(tag_text, tags)

\* handle_endtag, lines 71-80
EndPill(s) ==
    IF s.in_tag_pill
    THEN IF s.div_depth - 1 = 0
         THEN LET tag_text == Strip(Join(s.current_tag_text))
              IN [s EXCEPT !.div_depth = 0,
                           !.tags = IF KeepTag(@, tag_text)
                                    THEN Append(@, tag_text) ELSE @,
                           !.in_tag_pill = FALSE,
                           !.current_tag_text = <<>>]
         ELSE [s EXCEPT !.div_depth = @ - 1]
    ELSE s

HandleEndTag(s, tag) ==
    IF tag = "div" THEN EndPill(EndMain(s)) ELSE s

\* handle_data
HandleData(s, data) ==
    IF s.in_tag_pill
    THEN [s EXCEPT !.current_tag_text = Append(@, data)]
    ELSE s

\* The events of a document, as HTMLParser dispatches them.
EvStart(tag, cls) == [type |-> "start", tag |-> tag, cls |-> cls, data |-> <<>>]
EvEnd(tag)        == [type |-> "end", tag |-> tag, cls |-> <<>>, data |-> <<>>]
EvData(data)      == [type |-> "data", tag |-> "", cls |-> <<>>, data |-> data]

\* HTMLParser's dispatch of one event to the handlers
Dispatch(s, ev) ==
    IF ev.type = "start" THEN HandleStartTag(s, ev.tag, ev.cls)
    ELSE IF ev.type = "end" THEN HandleEndTag(s, ev.tag)
    ELSE HandleData(s, ev.data)

RECURSIVE Feed(_, _)
\* parser.feed(text); parser.close()
Feed(s, events) ==
    IF events = <<>> THEN s ELSE Feed(Dispatch(s, Head(events)), Tail(events))

\* _try_fetch, lines 129-133: a fresh parser over the response text
ScanTags(events) == Feed(ParserInit, events).tags

(***************************************************************************)
(* ForumTagFetcher                                                         *)
(***************************************************************************)
\* A URL is the sequence of its lexical tokens; "/", ":", "@", ".", "[" are
\* tokens of their own, so that token suffixes are character suffixes.
NAOBAIJIN_DOMAINS ==
    << <<"naobaijin", ".", "app">>, <<"www", ".", "naobaijin", ".", "app">> >>

\* str.lower() of one token
LowerTok(t) == IF t = "NAOBAIJIN" THEN "naobaijin" ELSE t

\* str.lower()
Lower(s) == [i \in 1..Len(s) |-> LowerTok(s[i])]

\* the index of the first token of s, from index i on, that is in stops
\* (Len(s) + 1 if there is none)
RECURSIVE FindStop(_, _, _)
FindStop(s, i, stops) ==
    IF i > Len(s) THEN Len(s) + 1
    ELSE IF s[i] \in stops THEN i
    ELSE FindStop(s, i + 1, stops)

\* urlparse(url): [ok |-> FALSE] when it raises ValueError (a bracket of an
\* IPv6 host without its partner), else the netloc: what follows "//" after
\* the optional scheme, up to the first "/", "?" or "#".
UrlParse(u) ==
    LET rest == IF u # <<>> /\ Head(u) = "https:" THEN Tail(u) ELSE u
        slashes == Len(rest) >= 2 /\ rest[1] = "/" /\ rest[2] = "/"
        stop == FindStop(rest, 3, {"/", "?", "#"})
        netloc == IF slashes THEN SubSeq(rest, 3, stop - 1) ELSE <<>>
    IN IF InSeq("[", netloc) # InSeq("]", netloc)
       THEN [ok |-> FALSE, netloc |-> <<>>]
       ELSE [ok |-> TRUE, netloc |-> netloc]

\* line 114: the test of the lower-cased netloc against one listed domain
DomainMatch(domain, d) == EndsWith(domain, d)

\* is_valid_naobaijin_url
is_valid_naobaijin_url(u) ==
    IF u = <<>> THEN FALSE
    ELSE LET parsed == UrlParse(u)
         IN IF ~parsed.ok THEN FALSE
            ELSE LET domain == Lower(parsed.netloc)
                 IN \E i \in 1..Len(NAOBAIJIN_DOMAINS) :
                        DomainMatch(domain, NAOBAIJIN_DOMAINS[i])

RECURSIVE RStripSlash(_)
\* url.rstrip('/')
RStripSlash(u) ==
    IF u # <<>> /\ u[Len(u)] = "/"
    THEN RStripSlash(SubSeq(u, 1, Len(u) - 1))
    ELSE u

\* line 170: url + '/0'
FirstPageUrl(u) == u \o <<"/", "0">>

ErrInvalidUrl == "invalid naobaijin url"      \* the text of line 162
ErrNotFound   == "tag information not found"  \* the text of line 201
ErrNoTags     == "no tags found"              \* the text of line 137

\* a or b, on optional titles
Or(a, b) == IF a # None /\ a # "" THEN a ELSE b

\* _extract_title: the first of the title element, the og:title meta and
\* the first h1 that is there and non-empty after stripping
ExtractTitle(page) ==
    IF page.title # "" THEN page.title
    ELSE IF page.og # "" THEN page.og
    ELSE IF page.h1 # "" THEN page.h1
    ELSE None

\* _try_fetch on what session.get did: raised (timeout, connection error,
\* raise_for_status on a non-2xx status), or returned a page
TryFetch(resp) ==
    IF resp.kind # "ok"
    THEN [tags |-> <<>>, title |-> None, error |-> resp.kind]
    ELSE LET tags == ScanTags(resp.page.events)
             title == ExtractTitle(resp.page)
         IN IF tags = <<>>
            THEN [tags |-> <<>>, title |-> title, error |-> ErrNoTags]
            ELSE [tags |-> tags, title |-> title, error |-> None]

\* lines 173, 187: if tags
FoundTags(r) == r.tags # <<>>

\* lines 175-180
ResultFirst(r1) ==
    [success |-> TRUE, tags |-> r1.tags, error |-> None, title |-> r1.title]

ResultSecondStale(r1, r2) ==
    [success |-> TRUE, tags |-> r1.tags, error |-> None,
     title |-> Or(r2.title, r1.title)]

\* lines 189-194
ResultSecond(r1, r2) ==
    [success |-> TRUE, tags |-> r2.tags, error |-> None,
     title |-> Or(r2.title, r1.title)]

\* lines 198-203
ResultNotFound(r1, r2) ==
    [success |-> FALSE, tags |-> <<>>, error |-> ErrNotFound,
     title |-> Or(r1.title, r2.title)]

\* lines 159-164
ResultInvalid ==
    [success |-> FALSE, tags |-> <<>>, error |-> ErrInvalidUrl, title |-> None]

NoResult == [success |-> FALSE, tags |-> <<>>, error |-> "unset", title |-> None]
NoTry    == [tags |-> <<>>, title |-> None, error |-> "unset"]

(***************************************************************************)
(* The automation hooks                                                    *)
(***************************************************************************)
\* Python values: [t |-> type, v |-> content]. A dict's content "" is {}.
PyNone   == [t |-> "none", v |-> ""]
Unset    == [t |-> "unset", v |-> ""]
Str(x)   == [t |-> "str", v |-> x]
Dict(x)  == [t |-> "dict", v |-> x]
Bool(b)  == [t |-> "bool", v |-> IF b THEN "True" ELSE "False"]
List(s)  == [t |-> "list", v |-> s]

\* the truth value of `if x` / `not x`
Truthy(x) ==
    IF x.t \in {"none", "unset"} THEN FALSE
    ELSE IF x.t = "bool" THEN x.v = "True"
    ELSE IF x.t = "list" THEN Len(x.v) > 0
    ELSE x.v # ""

\* isinstance(v, dict)
IsDict(x) == x.t = "dict"

\* whether set.add(v) takes v: a dict is unhashable (TypeError)
Hashable(x) == x.t # "dict"

\* str(v) with its case kept
StrKeepCase(x) == IF x.t = "none" THEN "None" ELSE x.v

\* str(v).lower()
StrLower(x) ==
    IF x.t = "none" THEN "none"
    ELSE IF x.v \in {"True", "TRUE", "true"} THEN "true"
    ELSE IF x.v \in {"False", "false"} THEN "false"
    ELSE x.v

ACT_FETCH_FORUM_TAGS == "fetch_forum_tags"

Act(t, v) == [type |-> t, value |-> v]

\* lines 56-62
EmptyPlan ==
    [move |-> PyNone, add_tags |-> {}, remove_tags |-> {},
     favorite |-> PyNone, fetch_forum_tags |-> PyNone]

TranslateActionAlsoFetch(p, act) ==
    IF act.type = "move_folder" THEN [p EXCEPT !.move = act.value]
    ELSE IF act.type = "add_tag"
         THEN [p EXCEPT !.add_tags = @ \cup {act.value}]
    ELSE IF act.type = "remove_tag"
         THEN [p EXCEPT !.remove_tags = @ \cup {act.value}]
    ELSE IF act.type = "set_favorite"
         THEN [p EXCEPT !.favorite = Bool(StrLower(act.value) = "true")]
    ELSE IF act.type = ACT_FETCH_FORUM_TAGS
         THEN [p EXCEPT !.fetch_forum_tags = act.value]
    ELSE p

\* lines 64-77: one round of the translation loop
TranslateAction(p, act) ==
    IF act.type = "move_folder" THEN [p EXCEPT !.move = act.value]
    ELSE IF act.type = "add_tag"
         THEN [p EXCEPT !.add_tags = @ \cup {act.value}]
    ELSE IF act.type = "remove_tag"
         THEN [p EXCEPT !.remove_tags = @ \cup {act.value}]
    ELSE IF act.type = "set_favorite"
         THEN [p EXCEPT !.favorite = Bool(StrLower(act.value) = "true")]
    ELSE IF act.type = ACT_FETCH_FORUM_TAGS
         THEN p
    ELSE p

\* lines 69, 71: set.add raises on an unhashable value
TranslateRaises(act) ==
    act.type \in {"add_tag", "remove_tag"} /\ ~Hashable(act.value)

RECURSIVE Translate(_, _)
\* lines 63-77: [ok |-> FALSE] when a round raises
Translate(p, acts) ==
    IF acts = <<>> THEN [ok |-> TRUE, plan |-> p]
    ELSE IF TranslateRaises(Head(acts)) THEN [ok |-> FALSE, plan |-> p]
    ELSE Translate(TranslateAction(p, Head(acts)), Tail(acts))

\* lines 129-133: the configuration of a fetch action
ConfigOf(v) == IF IsDict(v) THEN v ELSE Dict("")

RECURSIVE LastFetchConfig(_, _)
LastFetchConfig(cfg, acts) ==
    IF acts = <<>> THEN cfg
    ELSE LastFetchConfig(
             IF Head(acts).type = ACT_FETCH_FORUM_TAGS
             THEN ConfigOf(Head(acts).value) ELSE cfg,
             Tail(acts))

RECURSIVE FirstFetchConfig(_, _)
\* lines 126-134: the loop ends at the first fetch action
FirstFetchConfig(cfg, acts) ==
    IF acts = <<>> THEN cfg
    ELSE IF Head(acts).type = ACT_FETCH_FORUM_TAGS
         THEN ConfigOf(Head(acts).value)
         ELSE FirstFetchConfig(cfg, Tail(acts))

\* line 136
NoFetchConfig(cfg) == ~Truthy(cfg)

\* lines 140-146
LinkPlan(cfg) == [EmptyPlan EXCEPT !.fetch_forum_tags = cfg]

\* What a hook returns.
RetUnset  == [kind |-> "unset", reason |-> "", result |-> ""]
RetNone   == [kind |-> "None", reason |-> "", result |-> ""]
RetZero   == [kind |-> "actions 0", reason |-> "", result |-> ""]
RetNoFetch ==
    [kind |-> "actions 0", reason |-> "no_fetch_forum_tags_action",
     result |-> ""]
RetResult(res) == [kind |-> "result", reason |-> "", result |-> res]

OnExceptionReraise == [ret |-> RetUnset, outcome |-> "raised"]

\* lines 85-87, 154-156: except Exception: log, return None
OnException == [ret |-> RetNone, outcome |-> "returned"]

\* lines 25, 99
NoActiveId(a) == ~Truthy(a)

\* lines 29, 103
NoRuleset(r) == ~Truthy(r)

CardMissingNever(c) == FALSE

\* lines 38, 108
CardMissing(c) == ~Truthy(c)

\* The longest action list rule evaluation returns.
MaxActions == 3

ActiveIds == {PyNone, Str(""), Str("rs1")}
Rulesets  == {PyNone, Dict(""), Dict("rules")}
Cards     == {PyNone, Dict(""), Dict("card")}
RuleActions ==
    { Act("move_folder", Str("folderA")),
      Act("move_folder", Str("folderB")),
      Act("set_favorite", Str("false")),
      Act("add_tag", Str("x")),
      Act("add_tag", Dict("bad")),
      Act("remove_tag", Str("y")),
      Act("set_favorite", Str("True")),
      Act(ACT_FETCH_FORUM_TAGS, Dict("exclude")),
      Act(ACT_FETCH_FORUM_TAGS, Dict("replace")),
      Act(ACT_FETCH_FORUM_TAGS, Dict("")),
      Act(ACT_FETCH_FORUM_TAGS, Str("x")),
      Act("unknown", PyNone) }
ActionLists == SeqsUpTo(RuleActions, MaxActions)

\* A dict's items are a set of <<key, value>> pairs.
\* d[k] = v
SetItem(d, k, v) == {kv \in d : kv[1] # k} \cup {<<k, v>>}

\* the items of the card object that id_map.get returns
CardFields(c) ==
    IF c = Dict("card") THEN {<<"id", "c1">>, <<"char_name", "n">>} ELSE {}

\* ui_info.get('summary', '')
UiSummaries == {"", "note"}

DictAlias(d) == [fields |-> d, same_object |-> TRUE]

\* lines 44, 114: context_data = dict(card_obj), a new dict with the items
DictCopy(d) == [fields |-> d, same_object |-> FALSE]

NoContext == [fields |-> {}, same_object |-> FALSE]

HookIdle ==
    /\ hook = "none" /\ hpc = "idle" /\ calls = <<>>
    /\ active_id = Unset /\ ruleset = Unset /\ card_obj = Unset
    /\ actions = <<>> /\ plan = EmptyPlan
    /\ failed = "" /\ ret = RetUnset /\ outcome = "running"
    /\ cache_card = [obj |-> PyNone, fields |-> {}]
    /\ context_data = NoContext

\* TagProcessor not in use
NoReturn == [value |-> <<>>, is |-> "nothing"]
ProcIdle ==
    /\ method = "none"
    /\ processor = [exclude_tags |-> {}, replace_rules |-> <<>>]
    /\ arg_tags = <<>>
    /\ arg_existing = PyNone /\ arg_new = <<>> /\ arg_mode = Unset
    /\ returned = NoReturn

\* get_tag_fetcher not called: _tag_fetcher = None (line 287)
SingletonIdle ==
    /\ tag_fetcher = 0 /\ instances = 0 /\ tpc = <<>>
    /\ got = <<>> /\ overlapped = FALSE

(***************************************************************************)
(* Documents                                                               *)
(***************************************************************************)
\* The longest pill list of a generated document.
MaxPills == 3

PillCls    == <<"pill_a2c9e8", "small_a2c9e8">>
PillClsBar == <<"pill_a2c9e8", "small_a2c9e8", "tagPill__9a337">>
BadgeCls   == <<"pill_a2c9e8", "small_a2c9e8", "defaultColor__4bd52">>
ClampCls   == <<"lineClamp1__4bd52">>
SidebarCls == <<"tags__08166">>
MainCls    == <<"tags_e5a45e">>

\* The pills a primary container is filled with: the class attribute, the
\* text chunks, whether the text sits in an inner line-clamp div, and
\* whether an inline element surrounds it.
PillA     == [cls |-> PillClsBar, text |-> << <<"a">> >>,
              inner |-> FALSE, span |-> FALSE]
PillB     == [cls |-> PillCls, text |-> << <<" ">>, <<"b", " ">> >>,
              inner |-> TRUE, span |-> FALSE]
PillAgain == [cls |-> PillCls, text |-> << <<"a">> >>,
              inner |-> TRUE, span |-> TRUE]
PillC     == [cls |-> PillClsBar, text |-> << <<"c">>, <<"c", " ">> >>,
              inner |-> FALSE, span |-> TRUE]
PillBadge == [cls |-> BadgeCls, text |-> << <<"+", "1">> >>,
              inner |-> TRUE, span |-> FALSE]
\* a count badge without the badge class: its text starts with "+"
PillPlus  == [cls |-> PillCls, text |-> << <<"+">>, <<"2">> >>,
              inner |-> FALSE, span |-> FALSE]
Pills == {PillA, PillB, PillAgain, PillC, PillBadge, PillPlus}

Label(p)   == Strip(Join(p.text))
\* a count badge ("+N"): by its class (line 51) or by its text (line 77)
IsBadge(p) == HasClass(p.cls, BadgeMarker) \/ StartsWith(Label(p), <<"+">>)

TextEvents(text) == [i \in 1..Len(text) |-> EvData(text[i])]

PillEvents(p) ==
    <<EvStart("div", p.cls)>>
    \o (IF p.inner THEN <<EvStart("div", ClampCls)>> ELSE <<>>)
    \o (IF p.span THEN <<EvStart("span", <<>>)>> ELSE <<>>)
    \o TextEvents(p.text)
    \o (IF p.span THEN <<EvEnd("span")>> ELSE <<>>)
    \o (IF p.inner THEN <<EvEnd("div")>> ELSE <<>>)
    \o <<EvEnd("div")>>

RECURSIVE PillsEvents(_)
PillsEvents(pills) ==
    IF pills = <<>> THEN <<>>
    ELSE PillEvents(Head(pills)) \o PillsEvents(Tail(pills))

\* A sidebar container: another marker, a pill with the primary pills' classes.
SidebarEvents(label) ==
    IF label = <<>> THEN <<>>
    ELSE <<EvStart("div", SidebarCls)>> \o PillEvents(
             [cls |-> PillClsBar, text |-> <<label>>,
              inner |-> TRUE, span |-> FALSE])
         \o <<EvEnd("div")>>

\* The events of the balanced document d: sidebars before and after the
\* primary container, which may sit in a wrapper and hold its pills in an
\* inner plain div.
DocEvents(d) ==
    (IF d.wrap THEN <<EvStart("div", <<"page">>)>> ELSE <<>>)
    \o SidebarEvents(d.pre)
    \o <<EvData(<<"x">>), EvStart("div", MainCls)>>
    \o (IF d.wrap THEN <<EvStart("div", <<"row">>)>> ELSE <<>>)
    \o PillsEvents(d.pills)
    \o (IF d.wrap THEN <<EvEnd("div")>> ELSE <<>>)
    \o <<EvEnd("div")>>
    \o SidebarEvents(d.post)
    \o (IF d.wrap THEN <<EvEnd("div")>> ELSE <<>>)

Docs ==
    [wrap : BOOLEAN, pre : {<<>>, <<"a">>}, post : {<<>>, <<"s">>},
     pills : SeqsUpTo(Pills, MaxPills)]

NoDoc == [wrap |-> FALSE, pre |-> <<>>, post |-> <<>>, pills |-> <<>>]

(***************************************************************************)
(* The fetcher's inputs                                                    *)
(***************************************************************************)
Schemes == { <<"https:", "/", "/">>, <<"/", "/">>, <<>> }
\* "evil" "naobaijin" "." "app" is the host evilnaobaijin.app
Netlocs ==
    { <<"naobaijin", ".", "app">>,
      <<"www", ".", "naobaijin", ".", "app">>,
      <<"forum", ".", "naobaijin", ".", "app">>,
      <<"NAOBAIJIN", ".", "app">>,
      <<"evil", "naobaijin", ".", "app">>,
      <<"naobaijin", ".", "app", ":", "8443">>,
      <<"user", "@", "naobaijin", ".", "app">>,
      <<"naobaijin", ".", "app", ".", "evil", ".", "com">>,
      <<"example", ".", "com">>,
      <<"[", "naobaijin", ".", "app">>,
      <<>> }
Paths ==
    { <<>>, <<"/">>, <<"/", "t", "/", "123">>, <<"/", "t", "/", "123", "/">>,
      <<"/", "t", "/", "123", "/", "/">> }
Urls == {s \o n \o p : s \in Schemes, n \in Netlocs, p \in Paths}

Page(d, title, og, h1) ==
    [events |-> DocEvents(d), title |-> title, og |-> og, h1 |-> h1]
PageOne   == Page([NoDoc EXCEPT !.pills = <<PillA>>], "T1", "", "")
PageTwo   == Page([NoDoc EXCEPT !.pills = <<PillB, PillA>>, !.pre = <<"a">>],
                  "", "T2", "")
PageBadge == Page([NoDoc EXCEPT !.pills = <<PillBadge>>, !.post = <<"s">>],
                  "", "", "T3")
PageLogin == [events |-> <<EvStart("div", <<"login">>), EvData(<<"x">>),
                           EvEnd("div")>>,
              title |-> "", og |-> "", h1 |-> ""]
Pages == {PageOne, PageTwo, PageBadge, PageLogin}

Responses ==
    {[kind |-> "ok", page |-> p] : p \in Pages}
    \cup {[kind |-> k, page |-> PageLogin] :
              k \in {"timeout", "connection error", "http status"}}

(***************************************************************************)
(* fetch_tags, one action per blocking step                                *)
(***************************************************************************)
RejectUrlEmptyOnly(u) == u = <<>>

\* line 158
RejectUrl(u) == ~is_valid_naobaijin_url(u)

NormalizeUrlKeepSlash(u) == u

\* line 167
NormalizeUrl(u) == RStripSlash(u)

\* lines 158-171: validation and the first request
FetchCall ==
    /\ fpc = "call"
    /\ IF RejectUrl(url)
       THEN /\ result' = ResultInvalid
            /\ fpc' = "done"
            /\ UNCHANGED requests
       ELSE /\ requests' = Append(requests, FirstPageUrl(NormalizeUrl(url)))
            /\ fpc' = "first"
            /\ UNCHANGED result
    /\ UNCHANGED <<url, first, second, svars, hvars, pvars, gvars>>

\* lines 171-185: the first _try_fetch returns
FirstResponse ==
    /\ fpc = "first"
    /\ \E resp \in Responses :
           LET r1 == TryFetch(resp)
           IN /\ first' = r1
              /\ IF FoundTags(r1)
                 THEN /\ result' = ResultFirst(r1)
                      /\ fpc' = "done"
                      /\ UNCHANGED requests
                 ELSE /\ requests' = Append(requests, NormalizeUrl(url))
                      /\ fpc' = "second"
                      /\ UNCHANGED result
    /\ UNCHANGED <<url, second, svars, hvars, pvars, gvars>>

\* lines 185-203: the second _try_fetch returns
SecondResponse ==
    /\ fpc = "second"
    /\ \E resp \in Responses :
           LET r2 == TryFetch(resp)
           IN /\ second' = r2
              /\ result' = IF FoundTags(r2)
                           THEN ResultSecond(first, r2)
                           ELSE ResultNotFound(first, r2)
    /\ fpc' = "done"
    /\ UNCHANGED <<url, requests, first, svars, hvars, pvars, gvars>>

ScanIdle ==
    /\ doc = <<>> /\ desc = NoDoc /\ pos = 1 /\ ps = ParserInit

FetchIdle ==
    /\ url = <<>> /\ fpc = "idle" /\ requests = <<>>
    /\ first = NoTry /\ second = NoTry /\ result = NoResult

FetchInit ==
    /\ url \in Urls
    /\ fpc = "call"
    /\ requests = <<>>
    /\ first = NoTry
    /\ second = NoTry
    /\ result = NoResult
    /\ ScanIdle
    /\ HookIdle
    /\ ProcIdle
    /\ SingletonIdle

FetchNext == FetchCall \/ FirstResponse \/ SecondResponse

SpecFetch == FetchInit /\ [][FetchNext]_vars

(***************************************************************************)
(* The parser fed with a document, one action per handler                  *)
(***************************************************************************)
ScanStartTag ==
    /\ pos <= Len(doc)
    /\ doc[pos].type = "start"
    /\ ps' = HandleStartTag(ps, doc[pos].tag, doc[pos].cls)
    /\ pos' = pos + 1
    /\ UNCHANGED <<doc, desc, fvars, hvars, pvars, gvars>>

ScanEndTag ==
    /\ pos <= Len(doc)
    /\ doc[pos].type = "end"
    /\ ps' = HandleEndTag(ps, doc[pos].tag)
    /\ pos' = pos + 1
    /\ UNCHANGED <<doc, desc, fvars, hvars, pvars, gvars>>

ScanData ==
    /\ pos <= Len(doc)
    /\ doc[pos].type = "data"
    /\ ps' = HandleData(ps, doc[pos].data)
    /\ pos' = pos + 1
    /\ UNCHANGED <<doc, desc, fvars, hvars, pvars, gvars>>

ScanInit ==
    /\ desc \in Docs
    /\ doc = DocEvents(desc)
    /\ pos = 1
    /\ ps = ParserInit
    /\ FetchIdle
    /\ HookIdle
    /\ ProcIdle
    /\ SingletonIdle

ScanNext == ScanStartTag \/ ScanEndTag \/ ScanData

SpecScan == ScanInit /\ [][ScanNext]_vars

(***************************************************************************)
(* The parser fed with any events, balanced or not                         *)
(***************************************************************************)
\* The most events fed after the start of a run.
MaxEvents == 4

\* one more event goes through HTMLParser's dispatch
FeedEvent(ev) ==
    /\ pos <= MaxEvents
    /\ doc' = Append(doc, ev)
    /\ ps' = Dispatch(ps, ev)
    /\ pos' = pos + 1
    /\ UNCHANGED <<desc, fvars, hvars, pvars, gvars>>

FeedStartTag ==
    \E cls \in {MainCls, PillCls, BadgeCls, <<"row">>} :
        FeedEvent(EvStart("div", cls))

FeedEndTag == FeedEvent(EvEnd("div"))

FeedData ==
    \E data \in {<<"a">>, <<"+">>, <<" ">>} : FeedEvent(EvData(data))

EventsInit ==
    /\ desc = NoDoc
    \* fed before: nothing, or a primary container left open after a pill "a"
    /\ doc \in {<<>>,
                <<EvStart("div", MainCls), EvStart("div", PillCls),
                  EvData(<<"a">>), EvEnd("div")>>}
    /\ pos = 1
    /\ ps = Feed(ParserInit, doc)
    /\ FetchIdle
    /\ HookIdle
    /\ ProcIdle
    /\ SingletonIdle

EventsNext == FeedStartTag \/ FeedEndTag \/ FeedData

SpecEvents == EventsInit /\ [][EventsNext]_vars

(***************************************************************************)
(* The hooks, one action per collaborator call                             *)
(***************************************************************************)
\* the ways a step of a hook ends
Raise(step) ==
    /\ failed' = step
    /\ hpc' = "done"
    /\ ret' = OnException.ret
    /\ outcome' = OnException.outcome

Return(r) ==
    /\ hpc' = "done"
    /\ ret' = r
    /\ outcome' = "returned"
    /\ UNCHANGED failed

Goto(l) ==
    /\ hpc' = l
    /\ UNCHANGED <<failed, ret, outcome>>

\* lines 22-26, 96-100
LoadConfig ==
    /\ hpc = "load_config"
    /\ calls' = Append(calls, "load_config")
    /\ \/ Raise("load_config") /\ UNCHANGED active_id
       \/ \E a \in ActiveIds :
              /\ active_id' = a
              /\ IF NoActiveId(a) THEN Return(RetNone)
                 ELSE Goto("get_ruleset")
    /\ UNCHANGED <<hook, ruleset, card_obj, actions, plan, cache_card,
                   context_data, svars, fvars, pvars, gvars>>

\* lines 28-30, 102-104
GetRuleset ==
    /\ hpc = "get_ruleset"
    /\ calls' = Append(calls, "get_ruleset")
    /\ \/ Raise("get_ruleset") /\ UNCHANGED ruleset
       \/ \E r \in Rulesets :
              /\ ruleset' = r
              /\ IF NoRuleset(r) THEN Return(RetNone)
                 ELSE Goto("cache_get")
    /\ UNCHANGED <<hook, active_id, card_obj, actions, plan, cache_card,
                   context_data, svars, fvars, pvars, gvars>>

\* lines 37-40, 107-110
CacheGet ==
    /\ hpc = "cache_get"
    /\ calls' = Append(calls, "cache_get")
    /\ \/ Raise("cache_get") /\ UNCHANGED card_obj
       \/ /\ card_obj' = cache_card.obj
          /\ IF CardMissing(cache_card.obj) THEN Return(RetNone)
             ELSE Goto("load_ui_data")
    /\ UNCHANGED <<hook, active_id, ruleset, actions, plan, cache_card,
                   context_data, svars, fvars, pvars, gvars>>

\* lines 43-44, 113-114
LoadUiData ==
    /\ hpc = "load_ui_data"
    /\ calls' = Append(calls, "load_ui_data")
    /\ \/ Raise("load_ui_data") /\ UNCHANGED context_data
       \/ /\ context_data' = DictCopy(cache_card.fields)
          /\ Goto("resolve_ui_key")
    /\ UNCHANGED <<hook, active_id, ruleset, card_obj, actions, plan,
                   cache_card, svars, fvars, pvars, gvars>>

\* lines 45-47, 115-117: resolve_ui_key, then the context's ui_summary,
\* which raises on a ui entry that is no mapping; an item set through
\* context_data lands in the cached object when the two are one object
ResolveUiKey ==
    /\ hpc = "resolve_ui_key"
    /\ calls' = Append(calls, "resolve_ui_key")
    /\ \/ Raise("resolve_ui_key") /\ UNCHANGED <<cache_card, context_data>>
       \/ Raise("ui_summary") /\ UNCHANGED <<cache_card, context_data>>
       \/ \E summary \in UiSummaries :
              /\ context_data' =
                     [context_data EXCEPT
                          !.fields = SetItem(@, "ui_summary", summary)]
              /\ cache_card' =
                     IF context_data.same_object
                     THEN [cache_card EXCEPT
                               !.fields = SetItem(@, "ui_summary", summary)]
                     ELSE cache_card
              /\ Goto("evaluate")
    /\ UNCHANGED <<hook, active_id, ruleset, card_obj, actions, plan,
                   svars, fvars, pvars, gvars>>

\* lines 50-77: evaluation and the import hook's plan
EvaluateImport ==
    /\ hook = "import"
    /\ hpc = "evaluate"
    /\ calls' = Append(calls, "evaluate")
    /\ \/ Raise("evaluate") /\ UNCHANGED <<actions, plan>>
       \/ \E acts \in ActionLists :
              /\ actions' = acts
              /\ IF acts = <<>>
                 THEN Return(RetZero) /\ UNCHANGED plan
                 ELSE LET t == Translate(EmptyPlan, acts)
                      IN IF t.ok
                         THEN plan' = t.plan /\ Goto("apply_plan")
                         ELSE Raise("translate") /\ UNCHANGED plan
    /\ UNCHANGED <<hook, active_id, ruleset, card_obj, cache_card,
                   context_data, svars, fvars, pvars, gvars>>

\* lines 120-146: evaluation and the link-update hook's plan
EvaluateLink ==
    /\ hook = "link"
    /\ hpc = "evaluate"
    /\ calls' = Append(calls, "evaluate")
    /\ \/ Raise("evaluate") /\ UNCHANGED <<actions, plan>>
       \/ \E acts \in ActionLists :
              /\ actions' = acts
              /\ IF acts = <<>>
                 THEN Return(RetZero) /\ UNCHANGED plan
                 ELSE LET cfg == FirstFetchConfig(PyNone, acts)
                      IN IF NoFetchConfig(cfg)
                         THEN Return(RetNoFetch) /\ UNCHANGED plan
                         ELSE plan' = LinkPlan(cfg) /\ Goto("apply_plan")
    /\ UNCHANGED <<hook, active_id, ruleset, card_obj, cache_card,
                   context_data, svars, fvars, pvars, gvars>>

\* lines 80-83, 149-152
ApplyPlan ==
    /\ hpc = "apply_plan"
    /\ calls' = Append(calls, "apply_plan")
    /\ \/ Raise("apply_plan")
       \/ \E res \in {"applied", "nothing to do"} : Return(RetResult(res))
    /\ UNCHANGED <<hook, active_id, ruleset, card_obj, actions, plan,
                   cache_card, context_data, svars, fvars, pvars, gvars>>

HookInit ==
    /\ hook \in {"import", "link"}
    /\ hpc = "load_config"
    /\ calls = <<>>
    /\ active_id = Unset /\ ruleset = Unset /\ card_obj = Unset
    /\ actions = <<>> /\ plan = EmptyPlan
    /\ failed = "" /\ ret = RetUnset /\ outcome = "running"
    /\ \E c \in Cards : cache_card = [obj |-> c, fields |-> CardFields(c)]
    /\ context_data = NoContext
    /\ ScanIdle
    /\ FetchIdle
    /\ ProcIdle
    /\ SingletonIdle

HookNext ==
    \/ LoadConfig \/ GetRuleset \/ CacheGet \/ LoadUiData \/ ResolveUiKey
    \/ EvaluateImport \/ EvaluateLink \/ ApplyPlan

SpecHook == HookInit /\ [][HookNext]_vars

(***************************************************************************)
(* TagProcessor                                                            *)
(***************************************************************************)
MaxTags == 3
\* the tag lists passed: up to MaxTags tags
TagLists == SeqsUpTo({"a", "b", "c"}, MaxTags)

\* set(list)
SetOf(s) == {s[i] : i \in 1..Len(s)}

\* a dict of replace rules is a function from its keys
NoRules == [t \in {} |-> t]
Rule(from, to) == [t \in {from} |-> to]

\* dict.get(key, default)
Get(d, key, default) == IF key \in DOMAIN d THEN d[key] ELSE default

\* lines 231-240: TagProcessor(exclude_tags, replace_rules)
NewTagProcessor(exclude_tags, replace_rules) ==
    [exclude_tags  |-> IF Truthy(exclude_tags) THEN SetOf(exclude_tags.v)
                       ELSE {},
     replace_rules |-> IF replace_rules.t = "dict"
                          /\ DOMAIN replace_rules.v # {}
                       THEN replace_rules.v ELSE NoRules]


ExcludedNever(self, tag) == FALSE

\* line 251: tag in self.exclude_tags
Excluded(self, tag) == tag \in self.exclude_tags

AppendAlways(out, tag) == Append(out, tag)

\* lines 259-260, 280-281: append unless already in the list
AppendUnique(out, tag) == IF InSeq(tag, out) THEN out ELSE Append(out, tag)

RECURSIVE ProcessLoop(_, _, _)
\* lines 249-260: the loop over tags, out being the result list so far
ProcessLoop(self, tags, out) ==
    IF tags = <<>> THEN out
    ELSE LET tag == Head(tags)
         IN IF Excluded(self, tag)
            THEN ProcessLoop(self, Tail(tags), out)
            ELSE LET processed_tag == Get(self.replace_rules, tag, tag)
                 IN ProcessLoop(self, Tail(tags),
                                AppendUnique(out, processed_tag))

\* lines 242-263
process(self, tags) == ProcessLoop(self, tags, <<>>)

\* A list object is its items and which object it is: "new" for a list the
\* call made, else the argument it is.
ListAlias(items, arg) == [items |-> items, is |-> arg]

\* list(x): a new list with the items of x
ListCopy(items, arg) == [items |-> items, is |-> "new"]

RECURSIVE MergeLoop(_, _)
\* lines 279-281
MergeLoop(merged, new_tags) ==
    IF new_tags = <<>> THEN merged
    ELSE MergeLoop(AppendUnique(merged, Head(new_tags)), Tail(new_tags))

\* line 265: mode='merge' when the caller passes none
ModeOf(m) == IF m = Unset THEN "merge" ELSE m.v

\* lines 265-283: the returned list, and the two argument objects after the
\* call (appending to merged changes the object merged is)
merge_tags(existing_tags, new_tags, mode) ==
    IF mode = "replace"
    THEN LET r == ListCopy(new_tags, "new_tags")
         IN [value |-> r.items, is |-> r.is,
             existing_tags |-> existing_tags, new_tags |-> new_tags]
    ELSE LET merged == IF Truthy(existing_tags)
                       THEN ListCopy(existing_tags.v, "existing_tags")
                       ELSE [items |-> <<>>, is |-> "new"]
             out == MergeLoop(merged.items, new_tags)
         IN [value |-> out, is |-> merged.is,
             existing_tags |-> IF merged.is = "existing_tags"
                               THEN List(out) ELSE existing_tags,
             new_tags |-> new_tags]

\* processor.process(tags)
CallProcess ==
    /\ method = "process"
    /\ returned = NoReturn
    /\ returned' = [value |-> process(processor, arg_tags), is |-> "new"]
    /\ UNCHANGED <<method, processor, arg_tags, arg_existing, arg_new,
                   arg_mode, svars, fvars, hvars, gvars>>

\* processor.merge_tags(existing_tags, new_tags[, mode])
CallMergeTags ==
    /\ method = "merge_tags"
    /\ returned = NoReturn
    /\ LET m == merge_tags(arg_existing, arg_new, ModeOf(arg_mode))
       IN /\ returned' = [value |-> m.value, is |-> m.is]
          /\ arg_existing' = m.existing_tags
          /\ arg_new' = m.new_tags
    /\ UNCHANGED <<method, processor, arg_tags, arg_mode,
                   svars, fvars, hvars, gvars>>

TagsInit ==
    /\ \/ /\ method = "process"
          /\ \E e \in {PyNone, List(<<>>), List(<<"b">>), List(<<"c", "a">>),
                        List(<<"b", "b">>)},
                r \in {PyNone, Dict(NoRules), Dict(Rule("c", "z")),
                        Dict(Rule("a", "b")), Dict(Rule("b", "z")),
                        Dict([t \in {"a", "b"} |->
                                  IF t = "a" THEN "b" ELSE "c"])} :
                 processor = NewTagProcessor(e, r)
          /\ arg_tags \in TagLists
          /\ arg_existing = PyNone /\ arg_new = <<>> /\ arg_mode = Unset
       \/ /\ method = "merge_tags"
          /\ processor = NewTagProcessor(PyNone, PyNone)
          /\ arg_tags = <<>>
          /\ arg_existing \in {PyNone} \cup {List(t) : t \in TagLists}
          /\ arg_new \in TagLists
          /\ arg_mode \in {Unset, Str("merge"), Str("replace"), Str("append")}
    /\ returned = NoReturn
    /\ ScanIdle
    /\ FetchIdle
    /\ HookIdle
    /\ SingletonIdle

TagsNext == CallProcess \/ CallMergeTags

SpecTags == TagsInit /\ [][TagsNext]_vars

(***************************************************************************)
(* get_tag_fetcher                                                         *)
(***************************************************************************)
\* The threads that call get_tag_fetcher, each once.
MaxCallers == 3

\* _tag_fetcher is 0 for None, else the number of the instance it holds.
IsNoneAlways(fetcher) == TRUE

\* line 291: _tag_fetcher is None
IsNone(fetcher) == fetcher = 0

\* line 291: the call begins with the test of the global; it overlaps with
\* every call that has begun and not yet returned
TestNone(c) ==
    /\ tpc[c] = "call"
    /\ tpc' = [tpc EXCEPT ![c] = IF IsNone(tag_fetcher) THEN "construct"
                                 ELSE "return"]
    /\ overlapped' = (overlapped \/ \E d \in DOMAIN tpc :
                                       tpc[d] \in {"construct", "return"})
    /\ UNCHANGED <<tag_fetcher, instances, got, svars, fvars, hvars, pvars>>

\* line 292: a new ForumTagFetcher, with its own session, is stored
Construct(c) ==
    /\ tpc[c] = "construct"
    /\ instances' = instances + 1
    /\ tag_fetcher' = instances + 1
    /\ tpc' = [tpc EXCEPT ![c] = "return"]
    /\ UNCHANGED <<got, overlapped, svars, fvars, hvars, pvars>>

\* line 294: return _tag_fetcher
ReturnFetcher(c) ==
    /\ tpc[c] = "return"
    /\ got' = [got EXCEPT ![c] = tag_fetcher]
    /\ tpc' = [tpc EXCEPT ![c] = "done"]
    /\ UNCHANGED <<tag_fetcher, instances, overlapped,
                   svars, fvars, hvars, pvars>>

SingletonInit ==
    /\ tag_fetcher = 0
    /\ instances = 0
    /\ tpc = [c \in 1..MaxCallers |-> "call"]
    /\ got = [c \in 1..MaxCallers |-> 0]
    /\ overlapped = FALSE
    /\ ScanIdle
    /\ FetchIdle
    /\ HookIdle
    /\ ProcIdle

SingletonNext ==
    \E c \in 1..MaxCallers : TestNone(c) \/ Construct(c) \/ ReturnFetcher(c)

SpecSingleton == SingletonInit /\ [][SingletonNext]_vars


(***************************************************************************)
(* Properties of fetch_tags (SpecFetch)                                    *)
(***************************************************************************)
FetchDone == fpc = "done"

\* C1: for a URL that is_valid_naobaijin_url rejects, fetch_tags issues no
\* HTTP request and returns success = False, tags = [] and the fixed
\* invalid-URL error, which is not None.
C1_InvalidUrlNoRequest ==
    ~is_valid_naobaijin_url(url) =>
        /\ requests = <<>>
        /\ FetchDone =>
               /\ result.success = FALSE
               /\ result.tags = <<>>
               /\ result.error = ErrInvalidUrl
               /\ result.error # None

C1_Witness ==
    /\ FetchDone
    /\ ~is_valid_naobaijin_url(url)
    /\ url = <<"https:", "/", "/", "example", ".", "com", "/", "t", "/", "123">>
    /\ result = ResultInvalid

\* C2: for a valid URL one call issues at most two requests; the first
\* goes to the slash-stripped URL + "/0"; the second goes to the bare
\* slash-stripped URL and is issued exactly when the first attempt gave no
\* tags (empty scan or failed request); the call always ends in a returned
\* result.
C2_TwoAttempts ==
    (is_valid_naobaijin_url(url) /\ fpc # "call") =>
        /\ Len(requests) \in {1, 2}
        /\ requests[1] = RStripSlash(url) \o <<"/", "0">>
        /\ Len(requests) = 2 => requests[2] = RStripSlash(url)
        /\ fpc = "first" => Len(requests) = 1
        /\ fpc = "second" => Len(requests) = 2 /\ first.tags = <<>>
        /\ FetchDone =>
               /\ Len(requests) = 2 <=> first.tags = <<>>
               /\ first.error # None => Len(requests) = 2
               /\ result.error # "unset"

C2_Witness ==
    /\ FetchDone
    /\ url = <<"https:", "/", "/", "naobaijin", ".", "app",
               "/", "t", "/", "123", "/">>
    /\ requests = << <<"https:", "/", "/", "naobaijin", ".", "app",
                       "/", "t", "/", "123", "/", "0">>,
                     <<"https:", "/", "/", "naobaijin", ".", "app",
                       "/", "t", "/", "123">> >>
    /\ first.error = "timeout"
    /\ second.error = "http status"

\* C3: for a valid URL the result is a success exactly when one of the two
\* attempts scanned tags; a success carries attempt 1's tags when there are
\* any and attempt 2's otherwise, with error None; with no tags from either
\* attempt the result is success = False, tags = [] and the fixed not-found
\* error. Every result has success = (tags non-empty) = (error is None).
C3_ResultShape ==
    FetchDone =>
        /\ result.success <=> result.tags # <<>>
        /\ result.success <=> result.error = None
        /\ is_valid_naobaijin_url(url) =>
               /\ result.success <=> (first.tags # <<>> \/ second.tags # <<>>)
               /\ result.success =>
                      result.tags = IF first.tags # <<>> THEN first.tags
                                    ELSE second.tags
               /\ (first.tags = <<>> /\ second.tags = <<>>) =>
                      /\ result.success = FALSE
                      /\ result.tags = <<>>
                      /\ result.error = ErrNotFound

C3_Witness ==
    /\ FetchDone
    /\ is_valid_naobaijin_url(url)
    /\ first.tags = <<>>
    /\ first.error = ErrNoTags
    /\ second.tags = << <<"b">>, <<"a">> >>
    /\ result.success
    /\ result.tags = << <<"b">>, <<"a">> >>

\* The host of a URL as urlparse(url).hostname gives it: the netloc without
\* its userinfo and its port, lower-cased; <<>> when the URL does not parse.
HostOf(u) ==
    LET parsed == UrlParse(u)
        n == parsed.netloc
        at == CHOOSE i \in 0..Len(n) :
                  /\ i = 0 \/ n[i] = "@"
                  /\ \A j \in (i + 1)..Len(n) : n[j] # "@"
        h == SubSeq(n, at + 1, Len(n))
        colon == FindStop(h, 1, {":"})
    IN IF u = <<>> \/ ~parsed.ok THEN <<>>
       ELSE Lower(SubSeq(h, 1, colon - 1))

HostAllowed(u) ==
    \E i \in 1..Len(NAOBAIJIN_DOMAINS) :
        \/ HostOf(u) = NAOBAIJIN_DOMAINS[i]
        \/ EndsWith(HostOf(u), <<".">> \o NAOBAIJIN_DOMAINS[i])

\* C4: is_valid_naobaijin_url(url) is true exactly when the URL parses and
\* its host is a listed domain or a subdomain of one (ends with "." + the
\* domain): a host with a listed domain as a bare string suffix is
\* rejected, a listed host with a port is accepted.
C4_ValidIffHostAllowed ==
    is_valid_naobaijin_url(url) <=> HostAllowed(url)

(***************************************************************************)
(* Properties of the scan of a balanced document (SpecScan)                *)
(***************************************************************************)
ScanDone == doc # <<>> /\ pos > Len(doc)

RECURSIVE ValidLabels(_)
\* the labels of the pills that are no count badges, in document order
ValidLabels(pills) ==
    IF pills = <<>> THEN <<>>
    ELSE (IF IsBadge(Head(pills)) THEN <<>> ELSE <<Label(Head(pills))>>)
         \o ValidLabels(Tail(pills))

RECURSIVE FirstOccurrences(_, _)
\* seen, followed by the elements of s not met before, in order
FirstOccurrences(seen, s) ==
    IF s = <<>> THEN seen
    ELSE FirstOccurrences(
             IF InSeq(Head(s), seen) THEN seen ELSE Append(seen, Head(s)),
             Tail(s))

HookDone == hpc = "done"
Called(c) == InSeq(c, calls)
TimesCalled(c) == Cardinality({i \in 1..Len(calls) : calls[i] = c})

IsFetchAct(a) == a.type = ACT_FETCH_FORUM_TAGS
HasFetchAct(acts) == \E i \in 1..Len(acts) : IsFetchAct(acts[i])

\* the first fetch-forum-tags action of a list that has one
FirstFetchAct(acts) ==
    acts[CHOOSE i \in 1..Len(acts) :
             /\ IsFetchAct(acts[i])
             /\ \A j \in 1..(i - 1) : ~IsFetchAct(acts[j])]

\* C6: in the link-update hook, an evaluated action list with a
\* fetch-forum-tags action makes the hook call the executor exactly once
\* with that action's configuration (the empty configuration when the
\* value is no mapping), and the hook answers with the reason
\* "no_fetch_forum_tags_action" exactly when the non-empty list has no
\* fetch-forum-tags action.
C6_FetchActionRunsExecutor ==
    (hook = "link" /\ HookDone /\ actions # <<>>
        /\ failed \notin {"evaluate", "translate"}) =>
        /\ HasFetchAct(actions) =>
               /\ TimesCalled("apply_plan") = 1
               /\ plan.fetch_forum_tags =
                      (IF IsDict(FirstFetchAct(actions).value)
                       THEN FirstFetchAct(actions).value ELSE Dict(""))
        /\ ret = RetNoFetch <=> ~HasFetchAct(actions)

\* C7: whenever the link-update hook calls the executor, the plan's
\* fetch_forum_tags is the value of the first fetch-forum-tags action of
\* the evaluated list, and move is None, add_tags and remove_tags are empty
\* and favorite is None, whatever other actions the list has.
C7_LinkPlanOnlyFirstFetch ==
    (hook = "link" /\ Called("apply_plan")) =>
        /\ HasFetchAct(actions)
        /\ plan.fetch_forum_tags = FirstFetchAct(actions).value
        /\ plan.move = PyNone
        /\ plan.add_tags = {}
        /\ plan.remove_tags = {}
        /\ plan.favorite = PyNone

C7_Witness ==
    /\ hook = "link"
    /\ HookDone
    /\ Called("apply_plan")
    /\ actions = << Act("add_tag", Str("x")),
                    Act(ACT_FETCH_FORUM_TAGS, Dict("exclude")),
                    Act(ACT_FETCH_FORUM_TAGS, Dict("")) >>
    /\ plan.fetch_forum_tags = Dict("exclude")
    /\ plan.add_tags = {}

\* C8: the plan the import hook hands to the executor has fetch_forum_tags
\* None; when all evaluated actions are fetch-forum-tags actions, it also
\* has move None, add_tags and remove_tags empty and favorite None.
C8_ImportSkipsFetch ==
    (hook = "import" /\ Called("apply_plan")) =>
        /\ plan.fetch_forum_tags = PyNone
        /\ (\A i \in 1..Len(actions) : IsFetchAct(actions[i])) =>
               plan = EmptyPlan

C8_Witness ==
    /\ hook = "import"
    /\ HookDone
    /\ Called("apply_plan")
    /\ actions = << Act(ACT_FETCH_FORUM_TAGS, Dict("exclude")) >>
    /\ plan = EmptyPlan

\* C9: neither hook lets a failure out: when configuration loading,
\* ruleset lookup, cache lookup, UI-data loading, UI-key resolution, rule
\* evaluation or plan execution raises, the hook returns None.
C9_FailuresReturnNone ==
    /\ outcome # "raised"
    /\ failed # "" => (HookDone /\ outcome = "returned" /\ ret = RetNone)

C9_Witness ==
    /\ hook = "link"
    /\ failed = "apply_plan"
    /\ HookDone
    /\ ret = RetNone

HookOrder ==
    <<"load_config", "get_ruleset", "cache_get", "load_ui_data",
      "resolve_ui_key", "evaluate", "apply_plan">>

\* C10: a hook calls the executor at most once, and only after, in this
\* order, an active ruleset id was configured and resolved to a ruleset,
\* the card was found in the cache and evaluation returned an action; with
\* no active ruleset or no card neither evaluation nor the executor is
\* called; when evaluation returns no action the hook returns
\* {run: True, actions: 0} without calling the executor.
C10_ExecutorOnlyAfterChecks ==
    /\ TimesCalled("apply_plan") <= 1
    /\ TimesCalled("evaluate") <= 1
    /\ Called("apply_plan") =>
           /\ calls = HookOrder
           /\ Truthy(active_id) /\ Truthy(ruleset) /\ Truthy(card_obj)
           /\ actions # <<>>
    /\ (\/ active_id # Unset /\ ~Truthy(active_id)
        \/ ruleset # Unset /\ ~Truthy(ruleset)
        \/ card_obj # Unset /\ ~Truthy(card_obj)) =>
           /\ ~Called("evaluate")
           /\ ~Called("apply_plan")
           /\ HookDone /\ ret = RetNone
    /\ (HookDone /\ Called("evaluate") /\ failed = "" /\ actions = <<>>) =>
           /\ ret = RetZero
           /\ ~Called("apply_plan")

C10_Witness ==
    /\ hook = "import"
    /\ HookDone
    /\ calls = HookOrder
    /\ ret = RetResult("applied")
    /\ card_obj = Dict("card")

(***************************************************************************)
(* The import hook's plan translation                                      *)
(***************************************************************************)
\* the import hook has built the plan it hands to apply_plan
ImportPlanBuilt ==
    hook = "import" /\ (hpc = "apply_plan" \/ Called("apply_plan"))

\* the positions of the actions of one type
ActsOfType(acts, t) == {i \in 1..Len(acts) : acts[i].type = t}
ValuesOfType(acts, t) == {acts[i].value : i \in ActsOfType(acts, t)}
Max(S) == CHOOSE i \in S : \A j \in S : j <= i
LastOfType(acts, t) == acts[Max(ActsOfType(acts, t))].value

\* the values whose text, lower-cased, is "true"
SaysTrue(v) == v \in {Str("true"), Str("True"), Str("TRUE"), Bool(TRUE)}

PlanFields == {"move", "add_tags", "remove_tags", "favorite",
               "fetch_forum_tags"}
FieldsChanged(p, q) == {f \in PlanFields : p[f] # q[f]}

Keys(d) == {kv[1] : kv \in d}
ContextBuilt == hpc \in {"evaluate", "apply_plan"} \/ Called("evaluate")

\* C15: at every point of either hook, and so after it, the object the cache
\* holds for the card has the keys and values it had before the call, with
\* no ui_summary among them; the ui_summary is in the context copy only.
C15_CacheCardUnchanged ==
    /\ cache_card.fields = CardFields(cache_card.obj)
    /\ "ui_summary" \notin Keys(cache_card.fields)
    /\ ContextBuilt =>
           /\ "ui_summary" \in Keys(context_data.fields)
           /\ context_data.fields \ cache_card.fields
                  \subseteq {<<"ui_summary", s>> : s \in UiSummaries}

C15_Witness ==
    /\ HookDone /\ hook = "link" /\ Called("apply_plan")
    /\ <<"ui_summary", "note">> \in context_data.fields
    /\ cache_card.fields = {<<"id", "c1">>, <<"char_name", "n">>}

(***************************************************************************)
(* Properties of TagProcessor (SpecTags)                                   *)
(***************************************************************************)
Returned == returned.is # "nothing"
ProcessReturned == method = "process" /\ Returned
MergeReturned == method = "merge_tags" /\ Returned

NoDuplicates(s) == \A i, j \in 1..Len(s) : s[i] = s[j] => i = j
FirstIndex(s, x) == CHOOSE i \in 1..Len(s) :
                        s[i] = x /\ \A j \in 1..(i - 1) : s[j] # x

\* r lists the distinct elements of s, each once, in the order in which
\* they first occur in s
IsFirstOccurrenceList(r, s) ==
    /\ NoDuplicates(r)
    /\ SetOf(r) = SetOf(s)
    /\ \A i, j \in 1..Len(r) :
           i < j => FirstIndex(s, r[i]) < FirstIndex(s, r[j])

\* the input tags that are not excluded, each replaced by its image
ImagesOfKept(self, tags) ==
    LET Keep(t) == t \notin self.exclude_tags
        kept == SelectSeq(tags, Keep)
    IN [i \in 1..Len(kept) |->
            IF kept[i] \in DOMAIN self.replace_rules
            THEN self.replace_rules[kept[i]] ELSE kept[i]]

\* C12: process(tags) is the fold over the input in order that skips the
\* excluded tags, replaces each other tag by its image under the replace map
\* and keeps the first occurrence of each image; it has no duplicates, is
\* empty for empty input, and process([a,b,c]) with exclude {b} and replace
\* {c -> z} is [a,z].
C12_ProcessIsFold ==
    ProcessReturned =>
        /\ IsFirstOccurrenceList(returned.value,
                                 ImagesOfKept(processor, arg_tags))
        /\ NoDuplicates(returned.value)
        /\ arg_tags = <<>> => returned.value = <<>>
        /\ ( /\ arg_tags = <<"a", "b", "c">>
             /\ processor.exclude_tags = {"b"}
             /\ processor.replace_rules = Rule("c", "z") )
           => returned.value = <<"a", "z">>

C12_Witness ==
    /\ ProcessReturned
    /\ arg_tags = <<"a", "b", "c">>
    /\ processor = NewTagProcessor(List(<<"b">>), Dict(Rule("c", "z")))
    /\ returned.value = <<"a", "z">>

\* the tags of existing_tags: none for None
ExistingItems == IF arg_existing.t = "list" THEN arg_existing.v ELSE <<>>

\* the incoming tags that are not in existing, in incoming order
NovelTags ==
    LET Novel(t) == ~InSeq(t, ExistingItems)
    IN SelectSeq(arg_new, Novel)

C13_MergeResult ==
    MergeReturned =>
        /\ returned.is = "new"
        /\ ModeOf(arg_mode) = "replace" => returned.value = arg_new
        /\ ModeOf(arg_mode) = "merge" =>
               LET n == Len(ExistingItems)
               IN /\ Len(returned.value) >= n
                  /\ SubSeq(returned.value, 1, n) = ExistingItems
                  /\ IsFirstOccurrenceList(
                         SubSeq(returned.value, n + 1, Len(returned.value)),
                         NovelTags)

C13_InputsKept ==
    method = "merge_tags" =>
        arg_existing' = arg_existing /\ arg_new' = arg_new

\* C13: merge_tags in mode 'replace' returns a new list with the items of
\* incoming, whatever existing is; in mode 'merge' (also when no mode is
\* passed) it returns a new list that begins with existing unchanged and
\* continues with the incoming tags that are not in existing, each once, in
\* incoming order; the call changes neither argument list, and existing may
\* be None or empty.
C13_MergeTags == []C13_MergeResult /\ [][C13_InputsKept]_vars

C13_Witness ==
    /\ MergeReturned
    /\ arg_existing = List(<<"a", "b">>)
    /\ arg_new = <<"b", "c", "c">>
    /\ arg_mode = Unset
    /\ returned.value = <<"a", "b", "c">>

\* C14: the list merge_tags returns has no tag more than once, in mode
\* 'merge' and in mode 'replace', whatever existing and incoming are.
C14_MergeNoDuplicates ==
    (MergeReturned /\ ModeOf(arg_mode) \in {"merge", "replace"}) =>
        NoDuplicates(returned.value)

\* C19 as stated: process returns no tag that is in the exclude set.
C19_Original_NoExcludedTag ==
    ProcessReturned =>
        \A i \in 1..Len(returned.value) :
            returned.value[i] \notin processor.exclude_tags

\* C19: every tag process returns is the image under the replace map
\* (itself if absent) of an input tag that is not in the exclude set; a
\* member of the exclude set is returned only when a replace rule maps a
\* non-excluded input tag onto it.
C19_ExcludedOnlyByReplace ==
    ProcessReturned =>
        \A i \in 1..Len(returned.value) :
            LET out == returned.value[i]
            IN /\ \E j \in 1..Len(arg_tags) :
                      /\ arg_tags[j] \notin processor.exclude_tags
                      /\ out = Get(processor.replace_rules,
                                   arg_tags[j], arg_tags[j])
               /\ out \in processor.exclude_tags =>
                      \E j \in 1..Len(arg_tags) :
                          /\ arg_tags[j] \notin processor.exclude_tags
                          /\ arg_tags[j] \in DOMAIN processor.replace_rules
                          /\ processor.replace_rules[arg_tags[j]] = out
                          /\ arg_tags[j] # out

C19_Witness ==
    /\ ProcessReturned
    /\ processor = NewTagProcessor(List(<<"b">>), Dict(Rule("a", "b")))
    /\ arg_tags = <<"b", "a">>
    /\ returned.value = <<"b">>

(***************************************************************************)
(* Properties of the parser under any events (SpecEvents)                  *)
(***************************************************************************)
IsOpen(ev) == ev.type = "start" /\ ev.tag = "div"
IsClose(ev) == ev.type = "end" /\ ev.tag = "div"

RECURSIVE CountedMainDepth(_, _)
\* the primary container's depth by plain counting: 1 at a primary marker
\* met outside, then +1 at every open and -1 at every close
CountedMainDepth(depth, events) ==
    IF events = <<>> THEN depth
    ELSE LET ev == Head(events)
             next == IF depth = 0
                     THEN IF IsOpen(ev) /\ HasClass(ev.cls, MainMarker)
                          THEN 1 ELSE 0
                     ELSE IF IsOpen(ev) THEN depth + 1
                     ELSE IF IsClose(ev) THEN depth - 1
                     ELSE depth
         IN CountedMainDepth(next, Tail(events))

\* C16: after the primary marker set the depth to 1, every open inside the
\* primary container adds one to the depth, also an open whose class has the
\* primary marker again, and every close takes one off; the parser is inside
\* the primary container exactly while that count is above 0.
C16_MainDepthCounts ==
    /\ ps.main_container_depth = CountedMainDepth(0, doc)
    /\ ps.in_main_tags_container = (CountedMainDepth(0, doc) > 0)

NoPill == [in_pill |-> FALSE, depth |-> 0, text |-> <<>>]

RECURSIVE CountedPill(_, _, _)
\* the pill by plain counting, s being the parser before each event: a pill
\* starts at a pill-class, non-badge open inside the primary container when
\* no pill is open; inside a pill every open adds one to its depth, every
\* close takes one off and ends the pill at 0, every text joins the buffer
CountedPill(s, pill, events) ==
    IF events = <<>> THEN pill
    ELSE LET ev == Head(events)
             next ==
                 IF IsOpen(ev)
                 THEN IF pill.in_pill
                      THEN [pill EXCEPT !.depth = @ + 1]
                      ELSE IF /\ StartMain(s, ev.cls).in_main_tags_container
                              /\ TagClassPattern(ev.cls)
                              /\ ~HasClass(ev.cls, BadgeMarker)
                           THEN [in_pill |-> TRUE, depth |-> 1, text |-> <<>>]
                           ELSE pill
                 ELSE IF IsClose(ev)
                 THEN IF pill.in_pill
                      THEN IF pill.depth = 1 THEN NoPill
                           ELSE [pill EXCEPT !.depth = @ - 1]
                      ELSE pill
                 ELSE IF ev.type = "data" /\ pill.in_pill
                 THEN [pill EXCEPT !.text = Append(@, ev.data)]
                 ELSE pill
         IN CountedPill(Dispatch(s, ev), next, Tail(events))

\* C17: inside a pill every open adds one to the pill's depth whatever its
\* class, never restarts the pill and never clears the text buffer, and
\* every close takes one off, so the pill ends at the close of its own open
\* with the text of all its nested divs.
C17_PillDepthCounts ==
    LET pill == CountedPill(ParserInit, NoPill, doc)
    IN /\ ps.in_tag_pill = pill.in_pill
       /\ ps.div_depth = pill.depth
       /\ ps.current_tag_text = pill.text

\* the tags after the first n events
TagsAfter(n) == Feed(ParserInit, SubSeq(doc, 1, n)).tags
\* event n closes the open pill
FinalizesPill(n) ==
    LET before == Feed(ParserInit, SubSeq(doc, 1, n - 1))
    IN IsClose(doc[n]) /\ before.in_tag_pill /\ before.div_depth = 1

\* C18: whatever events were fed, the tags have no duplicate, no empty tag,
\* no tag with whitespace at either end and no tag starting with "+"; the
\* tags change only by one tag appended at the close that ends a pill; and
\* without a primary container among the events there are no tags.
C18_TagsInvariant ==
    /\ NoDuplicates(ps.tags)
    /\ \A i \in 1..Len(ps.tags) :
           LET t == ps.tags[i]
           IN /\ t # <<>>
              /\ t[1] \notin Whitespace
              /\ t[Len(t)] \notin Whitespace
              /\ t[1] # "+"
    /\ \A n \in 1..Len(doc) :
           \/ TagsAfter(n) = TagsAfter(n - 1)
           \/ /\ FinalizesPill(n)
              /\ Len(TagsAfter(n)) = Len(TagsAfter(n - 1)) + 1
              /\ SubSeq(TagsAfter(n), 1, Len(TagsAfter(n - 1)))
                     = TagsAfter(n - 1)
    /\ (\A n \in 1..Len(doc) :
            ~(IsOpen(doc[n]) /\ HasClass(doc[n].cls, MainMarker)))
           => ps.tags = <<>>

\* a second pill "a" was closed and left the tags as they were
C18_Witness ==
    /\ ps.tags = << <<"a">> >>
    /\ Len(doc) = 7
    /\ doc[5] = EvStart("div", PillCls)
    /\ doc[6] = EvData(<<"a">>)
    /\ FinalizesPill(7)

(***************************************************************************)
(* Properties of get_tag_fetcher (SpecSingleton)                           *)
(***************************************************************************)
AllReturned == \A c \in DOMAIN tpc : tpc[c] = "done"
OneInstanceForAll ==
    /\ instances <= 1
    /\ \A c \in DOMAIN tpc : tpc[c] = "done" => got[c] = 1

\* C20 as stated: under any interleaving of the callers at most one
\* ForumTagFetcher is constructed and every call returns that instance.
C20_Original_OneInstance == OneInstanceForAll

\* C20: as long as no call of get_tag_fetcher has begun while another was
\* in progress, at most one ForumTagFetcher is constructed and every call
\* returns that instance.
C20_OneInstanceWhenSerial == ~overlapped => OneInstanceForAll

C20_Witness ==
    /\ ~overlapped /\ AllReturned
    /\ instances = 1
    /\ \A c \in DOMAIN tpc : got[c] = 1

====
